---------------------------- MODULE Spec2Model ----------------------------
(***************************************************************************)
(* A model of the openpgp signing key of passphrase2pgp                    *)
(* (src/passphrase2pgp.go, package openpgp): the SignKey struct with its   *)
(* lazily cached secret-key packet, passphrase protection (S2K + CFB),     *)
(* Load, the signature engine, Certify and the Clearsign pipe.             *)
(*                                                                         *)
(* Octets are the integers 0..255 and every packet is a sequence of        *)
(* octets laid out byte for byte as the code lays it out.  The model is    *)
(* 1-indexed: Go's packet[i] is packet[i+1] here.  An int64 timestamp is   *)
(* kept as its 8 big-endian octets, so that uint32(x) is exactly the low   *)
(* four of them.                                                           *)
(*                                                                         *)
(* The library primitives (SHA-1, SHA-256, AES-256, Ed25519) are replaced  *)
(* by small deterministic stand-ins with the same interfaces and output    *)
(* sizes: a hash is a fold of its input stream, so identical streams give  *)
(* identical digests, as with the real functions.                          *)
(***************************************************************************)
EXTENDS Integers, Sequences, FiniteSets, TLC

Octets == 0..255

(***************************************************************************)
(* Octet helpers                                                           *)
(***************************************************************************)

\* a[from:to] of Go (0-based, half open) on the sequence s
Sl(s, from, to) == SubSeq(s, from + 1, to)

\* a[from:] of Go
SlFrom(s, from) == SubSeq(s, from + 1, Len(s))

\* the sequence f as an explicit tuple of its elements
Tup(f) == f \o <<>>

RECURSIVE XorBits(_, _, _)
XorBits(a, b, n) ==
    IF n = 0 THEN 0
    ELSE ((a + b) % 2) + 2 * XorBits(a \div 2, b \div 2, n - 1)

\* the exclusive or of two octets
Xor(a, b) == XorBits(a, b, 8)

\* bits.LeadingZeros8
LeadingZeros8(b) ==
    IF b >= 128 THEN 0 ELSE IF b >= 64 THEN 1 ELSE IF b >= 32 THEN 2
    ELSE IF b >= 16 THEN 3 ELSE IF b >= 8 THEN 4 ELSE IF b >= 4 THEN 5
    ELSE IF b >= 2 THEN 6 ELSE IF b >= 1 THEN 7 ELSE 8

\* binary.BigEndian.PutUint16
be16(n) == << (n \div 256) % 256, n % 256 >>

\* uint32(x) of an int64 kept as 8 big-endian octets, as 4 big-endian octets
uint32(x) == SubSeq(x, 5, 8)

\* int64(u) of a uint32 given as 4 big-endian octets
int64(u) == <<0, 0, 0, 0>> \o u

\* the int64 of a small natural number (the clock)
int64OfNat(n) ==
    <<0, 0, 0, 0, (n \div 16777216) % 256, (n \div 65536) % 256,
      (n \div 256) % 256, n % 256>>

(***************************************************************************)
(* Stand-ins for the library primitives                                    *)
(***************************************************************************)

\* hash.Hash.Write of one octet: the running state of the digest
HashStep(h, b) == (h * 263 + b + 1) % 46337

RECURSIVE PowMod(_, _)
PowMod(a, n) ==
    IF n = 0 THEN 1
    ELSE LET half == PowMod(a, n \div 2)
             sq   == (half * half) % 46337
         IN IF n % 2 = 0 THEN sq ELSE (sq * a) % 46337

\* the state HashStep reaches from 0 over s[lo..hi], computed by halves
\* (HashStep is affine in the state, so the fold splits anywhere)
RECURSIVE HashRange(_, _, _)
HashRange(s, lo, hi) ==
    IF lo > hi THEN 0
    ELSE IF lo = hi THEN HashStep(0, s[lo])
    ELSE LET mid == (lo + hi) \div 2
         IN (HashRange(s, lo, mid) * PowMod(263, hi - mid)
               + HashRange(s, mid + 1, hi)) % 46337

\* hash.Hash.Write(s) on the running state h: HashStep over every octet
HWrite(h, s) == (h * PowMod(263, Len(s)) + HashRange(s, 1, Len(s))) % 46337

\* 1 + a + ... + a^(n-1) modulo the hash modulus
RECURSIVE GeoMod(_, _)
GeoMod(a, n) ==
    IF n = 0 THEN 0
    ELSE IF n % 2 = 1 THEN (1 + a * GeoMod(a, n - 1)) % 46337
    ELSE LET m == n \div 2
         IN (GeoMod(a, m) * ((1 + PowMod(a, m)) % 46337)) % 46337

\* n times h.Write(block), in closed form: Write is affine in the state
HWriteTimes(h, block, n) ==
    LET A == PowMod(263, Len(block))
        c == HWrite(0, block)
    IN (((h * PowMod(A, n)) % 46337) + ((c * GeoMod(A, n)) % 46337)) % 46337

\* h.Sum(nil): size octets fixed by the running state
HSum(h, size) == Tup([i \in 1..size |-> (h * i + (h \div 256) + 31 * i) % 256])

\* sha1.New() and sha256.New(): the initial states
sha1New == 1
sha256New == 2

\* the SHA-1 digest of s (20 octets)
sha1Sum(s) == HSum(HWrite(sha1New, s), 20)

\* ed25519.NewKeyFromSeed: the public key of a 32-octet seed
PubOf(seed) ==
    Tup([i \in 1..32 |-> (seed[i] * 5 + seed[(i % 32) + 1] * 3 + 7 * i + 11) % 256])

\* ed25519.NewKeyFromSeed: private key = seed || public key
NewKeyFromSeed(seed) == seed \o PubOf(seed)

\* ed25519.Sign(key, msg): 64 octets fixed by the key and the message
ed25519Sign(key, msg) ==
    LET kh == HWrite(3, key)
        mh == HWrite(5, msg)
    IN Tup([i \in 1..64 |->
              (kh * (i + 1) + mh * (i + 3) + (kh \div 256) + (i * mh) \div 256) % 256])

\* one AES block encryption under key (16 octets out)
AesBlock(key, blk) ==
    LET kh == HWrite(7, key)
        bh == HWrite(9, blk)
    IN Tup([i \in 1..16 |->
              (kh * (i + 2) + bh * (i + 5) + (kh \div 256) + (bh \div 256)) % 256])

\* the octets of a that are XORed with keystream block ks (a no longer than 16)
XorBlock(a, ks) == Tup([i \in 1..Len(a) |-> Xor(a[i], ks[i])])

Min(a, b) == IF a < b THEN a ELSE b

\* cipher.NewCFBEncrypter(block, iv).XORKeyStream: each keystream block is
\* the encryption of the previous ciphertext block
RECURSIVE CFBEncrypt(_, _, _)
CFBEncrypt(key, prev, plain) ==
    IF Len(plain) = 0 THEN <<>>
    ELSE LET n == Min(16, Len(plain))
             c == XorBlock(SubSeq(plain, 1, n), AesBlock(key, prev))
         IN c \o CFBEncrypt(key, c, SubSeq(plain, n + 1, Len(plain)))

\* a decrypter that feeds its output back instead of the ciphertext
CFBDecryptFeedsOutput(key, prev, ciph) == CFBEncrypt(key, prev, ciph)

\* cipher.NewCFBDecrypter(block, iv).XORKeyStream
RECURSIVE CFBDecrypt(_, _, _)
CFBDecrypt(key, prev, ciph) ==
    IF Len(ciph) = 0 THEN <<>>
    ELSE LET n == Min(16, Len(ciph))
             c == SubSeq(ciph, 1, n)
         IN XorBlock(c, AesBlock(key, prev))
              \o CFBDecrypt(key, c, SubSeq(ciph, n + 1, Len(ciph)))

(***************************************************************************)
(* Scalar codec and packet framing (openpgp package, outside               *)
(* passphrase2pgp.go: modelled from the specification, sections 4.1, 4.2)  *)
(***************************************************************************)

\* data without its leading zero octets
StripZeros(data) ==
    LET nz == {i \in 1..Len(data) : data[i] # 0}
    IN IF nz = {} THEN <<>>
       ELSE SubSeq(data, CHOOSE i \in nz : \A j \in nz : i <= j, Len(data))

\* mpi: 2-octet bit length of the value without its leading zero bits, then
\* the minimal big-endian octets
mpi(data) ==
    LET d == StripZeros(data)
    IN IF Len(d) = 0 THEN <<0, 0>>
       ELSE be16(Len(d) * 8 - LeadingZeros8(d[1])) \o d

\* mpiDecode(data, size): the value left-padded with zeros to size octets
\* and the tail after it; value nil (ok FALSE) when the declared length
\* disagrees with the octets available or exceeds size
mpiDecode(data, size) ==
    IF Len(data) < 2 THEN [ok |-> FALSE, value |-> <<>>, tail |-> <<>>]
    ELSE LET bitlen == data[1] * 256 + data[2]
             n      == (bitlen + 7) \div 8
         IN IF n > size \/ Len(data) < 2 + n
            THEN [ok |-> FALSE, value |-> <<>>, tail |-> <<>>]
            ELSE [ok    |-> TRUE,
                  value |-> [i \in 1..(size - n) |-> 0] \o SubSeq(data, 3, 2 + n),
                  tail  |-> SubSeq(data, 3 + n, Len(data))]

RECURSIVE SumOctets(_, _, _)
SumOctets(s, lo, hi) ==
    IF lo > hi THEN 0
    ELSE IF lo = hi THEN s[lo]
    ELSE LET mid == (lo + hi) \div 2
         IN SumOctets(s, lo, mid) + SumOctets(s, mid + 1, hi)

\* checksum: the sum of the octets modulo 2^16
checksum(s) == SumOctets(s, 1, Len(s)) % 65536

\* marshal32be of a uint32 kept as its 4 big-endian octets
marshal32be(u) == u

\* ParsePacket(data): new-format header octet, one-octet length, body.
\* Body is a slice of data: the octets after it stay within its capacity
\* (Slack).  A corrupt or truncated header is the malformed-packet error
\* and leaves the zero Packet.
ParsePacket(data) ==
    IF Len(data) < 2 \/ data[1] < 192 \/ data[2] >= 192 \/ Len(data) < 2 + data[2]
    THEN [err |-> "InvalidPacketErr", Tag |-> 0, Body |-> <<>>, Slack |-> <<>>]
    ELSE [err   |-> "ok",
          Tag   |-> data[1] % 64,
          Body  |-> SubSeq(data, 3, 2 + data[2]),
          Slack |-> SubSeq(data, 3 + data[2], Len(data))]

(***************************************************************************)
(* SignKey: k is the struct [Key, created, expires, packet].  Key is the   *)
(* 64-octet private key (<<>> for the zero value), packet the cached       *)
(* secret-key packet (<<>> for nil).                                       *)
(***************************************************************************)

SignKeyPubLen == 53
s2kCount == 255

\* FlagMDC = iota in the third line of the const block
FlagMDC == 2

ZeroKey ==
    [Key |-> <<>>, created |-> int64OfNat(0), expires |-> int64OfNat(0),
     packet |-> <<>>]

\* func (k *SignKey) Seed(seed []byte)
Seed(k, seed) == [k EXCEPT !.Key = NewKeyFromSeed(seed), !.packet = <<>>]

\* SetCreated that keeps the cached packet
SetCreatedKeepsCache(k, time) == [k EXCEPT !.created = time]

\* func (k *SignKey) SetCreated(time int64)
SetCreated(k, time) == [k EXCEPT !.created = time, !.packet = <<>>]

\* func (k *SignKey) Seckey() []byte
Seckey(k) == Sl(k.Key, 0, 32)

\* func (k *SignKey) Pubkey() []byte
Pubkey(k) == SlFrom(k.Key, 32)

\* the OID 1.3.6.1.4.1.11591.15.1
oid == <<43, 6, 1, 4, 1, 218, 71, 15, 1>>

\* the packet Packet() builds when the cache is empty
BuildPacket(k) ==
    LET mpikey == mpi(Seckey(k))
        body   == <<4>> \o uint32(k.created) \o <<22, 9>> \o oid
                    \o be16(263) \o <<64>> \o Pubkey(k)
                    \o <<0>> \o mpikey \o be16(checksum(mpikey))
    IN <<192 + 5, Len(body) % 256>> \o body

\* func (k *SignKey) Packet() []byte: the cache if there is one.  The
\* result is the cache itself (the same backing array), not a copy.
Packet(k) == IF k.packet # <<>> THEN k.packet ELSE BuildPacket(k)

\* the key after Packet(): the cache is filled
AfterPacket(k) == [k EXCEPT !.packet = Packet(k)]

\* func (k *SignKey) PubPacket() []byte
PubPacket(k) ==
    <<192 + 6, SignKeyPubLen - 2>> \o Sl(Packet(k), 2, SignKeyPubLen)

\* func (k *SignKey) KeyID() []byte
KeyID(k) == sha1Sum(<<153, 0, 51>> \o Sl(Packet(k), 2, SignKeyPubLen))

\* func decodeS2K(c byte) int
decodeS2K(c) == (16 + (c % 16)) * (2 ^ ((c \div 16) + 6))

\* an s2k that writes whole blocks only
s2kWholeBlocks(passphrase, salt, count) ==
    LET full == salt \o passphrase
    IN [full |-> full, iterations |-> count \div Len(full), tail |-> <<>>]

\* what s2k writes to the hash: iterations times full, then full[:tail]
s2kWrites(passphrase, salt, count) ==
    LET full       == salt \o passphrase
        iterations == count \div Len(full)
        tail       == count - iterations * Len(full)
    IN [full |-> full, iterations |-> iterations, tail |-> Sl(full, 0, tail)]

\* func s2k(passphrase, salt []byte, count int) []byte
s2k(passphrase, salt, count) ==
    LET w == s2kWrites(passphrase, salt, count)
        h == HWriteTimes(sha256New, w.full, w.iterations)
    IN HSum(HWrite(h, w.tail), 32)

signKeySecLen == 37

\* The octets of an append chain that land in the backing array of the
\* slice the chain started from: Go's append writes in place while the
\* result fits the capacity and moves to a fresh array once it does not.
\* stages is the chain's successive results.
RECURSIVE InPlace(_, _, _)
InPlace(stages, cap, i) ==
    IF i < Len(stages) /\ Len(stages[i + 1]) <= cap
    THEN InPlace(stages, cap, i + 1)
    ELSE stages[i]

\* a backing array seen through a slice of old's length after the octets
\* of written were stored at its start
Overwrite(old, written) ==
    Tup([i \in 1..Len(old) |-> IF i <= Len(written) THEN written[i] ELSE old[i]])

\* EncPacket's mpikey || SHA-1(mpikey), encrypted
EncSecret(k, passphrase, salt, iv) ==
    LET key    == s2k(passphrase, salt, decodeS2K(s2kCount))
        mpikey == mpi(Seckey(k))
    IN CFBEncrypt(key, iv, mpikey \o sha1Sum(mpikey))

\* the append chain of EncPacket: packet := k.Packet()[:57] with its four
\* octets rewritten, then salt, count, iv and the encrypted secret appended
EncStages(k, passphrase, salt, iv) ==
    LET p0 == Sl(Packet(k), 0, SignKeyPubLen) \o <<254, 9, 3, 8>>
        p1 == p0 \o salt
        p2 == p1 \o <<s2kCount>>
        p3 == p2 \o iv
        p4 == p3 \o EncSecret(k, passphrase, salt, iv)
    IN <<p0, p1, p2, p3, p4>>

\* func (k *SignKey) EncPacket(passphrase []byte) []byte: the returned packet
EncPacket(k, passphrase, salt, iv) ==
    LET p == EncStages(k, passphrase, salt, iv)[5]
    IN Tup([p EXCEPT ![2] = (Len(p) - 2) % 256])

\* an EncPacket that works on a copy of the packet
EncPacketCopies(k, passphrase, salt, iv) == Packet(k)

\* the key after EncPacket: the cache was sliced, not copied, so the octets
\* EncPacket stored before append moved to a fresh array are in the cache
EncPacketCache(k, passphrase, salt, iv) ==
    LET stages == EncStages(k, passphrase, salt, iv)
        cap    == SignKeyPubLen + signKeySecLen
        shared == InPlace(stages, cap, 1)
        hdr    == IF Len(stages[5]) <= cap
                  THEN [shared EXCEPT ![2] = (Len(shared) - 2) % 256]
                  ELSE shared
    IN Overwrite(Packet(k), hdr)

AfterEncPacket(k, passphrase, salt, iv) ==
    [k EXCEPT !.packet = EncPacketCache(k, passphrase, salt, iv)]

(***************************************************************************)
(* Load.  A Packet value is [Tag, Body, Slack]; index expressions check    *)
(* len(Body), slice expressions check its capacity, Len(Body \o Slack).    *)
(* A run-time panic is the outcome "panic" until the deferred recover.     *)
(***************************************************************************)

static == <<22, 9>> \o oid \o <<1, 7, 64>>

LoadOut(k, body, err) == [k |-> k, Body |-> body, err |-> err]

\* Load ending without the public key comparison
LoadFinishUnchecked(k, body, seckey, pubkey) == LoadOut(Seed(k, seckey), body, "ok")

\* k.Seed(seckey) and the public key comparison that ends Load
LoadFinish(k, body, seckey, pubkey) ==
    LET k2 == Seed(k, seckey)
    IN LoadOut(k2, body, IF Pubkey(k2) # pubkey THEN "InvalidPacketErr" ELSE "ok")

\* the branch body[51] == 0
LoadClear(k, body, pubkey) ==
    LET d == mpiDecode(SlFrom(body, 52), 32)
    IN IF Len(d.tail) # 2 THEN LoadOut(k, body, "InvalidPacketErr")
       ELSE IF ~d.ok THEN LoadOut(k, body, "panic")
       ELSE LoadFinish(k, body, d.value, pubkey)

\* a Load that takes a nil passphrase for an empty one
NeverNil(passphrase) == FALSE

\* passphrase == nil
IsNil(passphrase) == passphrase.isNil

\* the branch body[51] == 254
LoadEnc(k, body, cap, pubkey, passphrase) ==
    LET n == Len(body)
    IN IF IsNil(passphrase) THEN LoadOut(k, body, "DecryptKeyErr")
       ELSE IF n < 53 THEN LoadOut(k, body, "panic")
       ELSE IF body[53] # 9 THEN LoadOut(k, body, "UnsupportedPacketErr")
       ELSE IF n < 54 THEN LoadOut(k, body, "panic")
       ELSE IF body[54] # 3 THEN LoadOut(k, body, "UnsupportedPacketErr")
       ELSE IF n < 55 THEN LoadOut(k, body, "panic")
       ELSE IF body[55] # 8 THEN LoadOut(k, body, "UnsupportedPacketErr")
       ELSE IF cap < 63 \/ n < 64 \/ cap < 80 \/ n < 80 THEN LoadOut(k, body, "panic")
       ELSE LET salt  == Sl(body, 55, 63)
                count == decodeS2K(body[64])
                iv    == Sl(body, 64, 80)
                key   == s2k(passphrase.b, salt, count)
                data  == CFBDecrypt(key, iv, SlFrom(body, 80))
                body2 == Sl(body, 0, 80) \o data
                d     == mpiDecode(data, 32)
            IN IF ~d.ok THEN LoadOut(k, body2, "DecryptKeyErr")
               ELSE IF sha1Sum(mpi(d.value)) # d.tail
                    THEN LoadOut(k, body2, "DecryptKeyErr")
               ELSE LoadFinish(k, body2, d.value, pubkey)

\* the body of Load, before the deferred function runs
LoadRaw(k, packet, passphrase) ==
    LET body == packet.Body
        full == packet.Body \o packet.Slack
        n    == Len(body)
        cap  == Len(full)
    IN IF packet.Tag = 6 THEN LoadOut(k, body, "UnsupportedPacketErr")
       ELSE IF packet.Tag # 5 THEN LoadOut(k, body, "InvalidPacketErr")
       ELSE IF n < 1 THEN LoadOut(k, body, "panic")
       ELSE IF body[1] # 4 THEN LoadOut(k, body, "UnsupportedPacketErr")
       ELSE IF cap < 19 THEN LoadOut(k, body, "panic")
       ELSE IF Sl(full, 5, 19) # static THEN LoadOut(k, body, "UnsupportedPacketErr")
       ELSE IF cap < 51 \/ n < 5 THEN LoadOut(k, body, "panic")
       ELSE LET pubkey == Sl(full, 19, 51)
                k1     == SetCreated(k, int64(Sl(body, 1, 5)))
            IN IF n < 52 THEN LoadOut(k1, body, "panic")
               ELSE IF body[52] = 0 THEN LoadClear(k1, body, pubkey)
               ELSE IF body[52] = 254 THEN LoadEnc(k1, body, cap, pubkey, passphrase)
               ELSE LoadOut(k1, body, "panic")

\* a Load without the deferred function
RecoverNothing(r) == r

\* the deferred function of Load: if recover() != nil { err = InvalidPacketErr }
Recover(r) == IF r.err = "panic" THEN [r EXCEPT !.err = "InvalidPacketErr"] ELSE r

\* func (k *SignKey) Load(packet Packet, passphrase []byte) (err error)
Load(k, packet, passphrase) == Recover(LoadRaw(k, packet, passphrase))

(***************************************************************************)
(* Signature engine                                                        *)
(***************************************************************************)

\* func fingerprint(keyid []byte) subpacket
fingerprint(keyid) == [Type |-> 33, Data |-> <<4>> \o keyid]

\* the loop of sign that appends each subpacket: length, type, data
RECURSIVE Subpackets(_, _)
Subpackets(subpackets, i) ==
    IF i > Len(subpackets) THEN <<>>
    ELSE <<(Len(subpackets[i].Data) + 1) % 256, subpackets[i].Type>>
           \o subpackets[i].Data \o Subpackets(subpackets, i + 1)

\* a hashed area with the caller's subpackets ahead of the two of sign
HashedAreaCallerFirst(k, in) ==
    LET sigCreated == [Type |-> 2, Data |-> marshal32be(uint32(in.when))]
        issuer     == [Type |-> 16, Data |-> Sl(KeyID(k), 12, 20)]
    IN Subpackets(in.subpackets \o <<sigCreated, issuer>>, 1)

\* the hashed subpacket area of sign: creation time, issuer, then the caller's
HashedArea(k, in) ==
    LET sigCreated == [Type |-> 2, Data |-> marshal32be(uint32(in.when))]
        issuer     == [Type |-> 16, Data |-> Sl(KeyID(k), 12, 20)]
    IN Subpackets(<<sigCreated, issuer>> \o in.subpackets, 1)

\* func (k *SignKey) sign(in sigInput) []byte
\* in is [h, sigtype, when, subpackets], h the running state of the digest
sign(k, in) ==
    LET hashed    == HashedArea(k, in)
        hashedLen == Len(hashed) % 65536
        head      == <<192 + 2, 0, 4, in.sigtype, 22, 8>> \o be16(hashedLen) \o hashed
        h1        == HWrite(in.h, Sl(head, 2, hashedLen + 8))
        h2        == HWrite(h1, <<4, 255, 0, 0, 0, (hashedLen + 6) % 256>>)
        sigsum    == HSum(h2, 32)
        sig       == ed25519Sign(k.Key, sigsum)
        packet    == head \o <<0, 0>> \o Sl(sigsum, 0, 2)
                       \o mpi(Sl(sig, 0, 32)) \o mpi(SlFrom(sig, 32))
    IN Tup([packet EXCEPT ![2] = ((Len(packet) % 256) + 254) % 256])

\* func (k *SignKey) Sign(src io.Reader) ([]byte, error)
\* src is [data, fault]: the octets read and whether the read then fails;
\* now is time.Now().Unix()
Sign(k, src, now) ==
    IF src.fault THEN [packet |-> <<>>, err |-> "fault"]
    ELSE [packet |-> sign(k, [h          |-> HWrite(sha256New, src.data),
                              sigtype    |-> 0,
                              when       |-> now,
                              subpackets |-> <<fingerprint(KeyID(k))>>]),
          err    |-> "ok"]

\* the key after Sign: KeyID() has filled the cache unless the read failed
AfterSign(k, src) == IF src.fault THEN k ELSE AfterPacket(k)

\* func (k *SignKey) Certify(key, uid []byte, when int64) []byte
\* the errors of ParsePacket are dropped (keypkt, _, _ := ...)
Certify(k, key, uid, when) ==
    LET keypkt == ParsePacket(key)
        uidpkt == ParsePacket(uid)
        h1     == HWrite(sha256New, <<153>> \o be16(Len(keypkt.Body)))
        h2     == HWrite(h1, keypkt.Body)
        h3     == HWrite(h2, <<180, 0, 0>> \o be16(Len(uidpkt.Body)))
        h4     == HWrite(h3, uidpkt.Body)
    IN sign(k, [h          |-> h4,
                sigtype    |-> 16,
                when       |-> when,
                subpackets |-> <<fingerprint(KeyID(k))>>])

\* flags & mask of two ints below 2^n
RECURSIVE AndBits(_, _, _)
AndBits(a, b, n) ==
    IF n = 0 THEN 0
    ELSE ((a % 2) * (b % 2)) + 2 * AndBits(a \div 2, b \div 2, n - 1)

\* uint32(a - b) of two int64: the difference of their low 32 bits modulo
\* 2^32, by 16-bit halves with the borrow
delta(a, b) ==
    LET lo == (a[7] * 256 + a[8]) - (b[7] * 256 + b[8])
        hi == (a[5] * 256 + a[6]) - (b[5] * 256 + b[6]) - (IF lo < 0 THEN 1 ELSE 0)
    IN be16((hi + 65536) % 65536) \o be16((lo + 65536) % 65536)

\* func (u *UserID) Packet() []byte: the user-id packet (tag 13) of the raw
\* identity octets.  UserID is not in the source.
UserIDPacket(userid) == <<192 + 13, Len(userid.ID) % 256>> \o userid.ID

\* func (k *EncryptKey) PubPacket() []byte: the public-key packet of the
\* subkey [Key, created, expires] (tag 14, version 4, creation time, its
\* own algorithm and object identifier, the public key, the KDF
\* parameters).  EncryptKey is not in the source.
EncryptKeyPubPacket(subkey) ==
    LET body == <<4>> \o uint32(subkey.created)
                  \o <<18, 10, 43, 6, 1, 4, 1, 151, 85, 1, 5, 1>>
                  \o be16(263) \o <<64>> \o subkey.Key \o <<3, 1, 8, 7>>
    IN <<192 + 14, Len(body)>> \o body

\* the subpacket lists Bind and SelfSign assemble
BindSubpackets(subkey) ==
    <<[Type |-> 27, Data |-> <<12>>]>>
        \o (IF subkey.expires # int64OfNat(0)
            THEN <<[Type |-> 9,
                    Data |-> marshal32be(delta(subkey.expires, subkey.created))]>>
            ELSE <<>>)

SelfSignSubpackets(k, flags) ==
    <<[Type |-> 27, Data |-> <<3>>]>>
        \o (IF k.expires # int64OfNat(0)
            THEN <<[Type |-> 9, Data |-> marshal32be(delta(k.expires, k.created))]>>
            ELSE <<>>)
        \o (IF AndBits(flags, FlagMDC, 8) # 0
            THEN <<[Type |-> 30, Data |-> <<1>>]>>
            ELSE <<>>)

\* func (k *SignKey) Bind(subkey *EncryptKey, when int64) []byte
Bind(k, subkey, when) ==
    LET pubkey    == PubPacket(k)
        pubsubkey == EncryptKeyPubPacket(subkey)
        h1 == HWrite(sha256New, <<153, 0, (Len(pubkey) - 2) % 256>>)
        h2 == HWrite(h1, SlFrom(pubkey, 2))
        h3 == HWrite(h2, <<153, 0, (Len(pubsubkey) - 2) % 256>>)
        h4 == HWrite(h3, SlFrom(pubsubkey, 2))
    IN sign(k, [h          |-> h4,
                sigtype    |-> 24,
                when       |-> when,
                subpackets |-> BindSubpackets(subkey)])

\* func (k *SignKey) SelfSign(userid *UserID, when int64, flags int) []byte
SelfSign(k, userid, when, flags) ==
    LET key == PubPacket(k)
        uid == UserIDPacket(userid)
        h1  == HWrite(sha256New, <<153, 0, (Len(key) - 2) % 256>>)
        h2  == HWrite(h1, SlFrom(key, 2))
        h3  == HWrite(h2, <<180, 0, 0, 0, (Len(uid) - 2) % 256>>)
        h4  == HWrite(h3, SlFrom(uid, 2))
    IN sign(k, [h          |-> h4,
                sigtype    |-> 19,
                when       |-> when,
                subpackets |-> SelfSignSubpackets(k, flags)])

(***************************************************************************)
(* Clearsign: the line transform, the armor of the signature (Armor is     *)
(* not in the source: base64 of the packet, wrapped, between the begin and *)
(* end delimiters, without the optional checksum line), and io.Pipe.       *)
(***************************************************************************)

Dashes == <<45, 45, 45, 45, 45>>

\* open := []byte("-----BEGIN PGP SIGNED MESSAGE-----\nHash: SHA256\n\n")
open ==
    Dashes \o <<66, 69, 71, 73, 78, 32, 80, 71, 80, 32, 83, 73, 71, 78, 69, 68, 32,
                77, 69, 83, 83, 65, 71, 69>> \o Dashes
      \o <<10, 72, 97, 115, 104, 58, 32, 83, 72, 65, 50, 53, 54, 10, 10>>

\* crlf := []byte("\r\n")
crlf == <<13, 10>>

\* bytes.IndexByte(data, '\n') + 1, 0 when there is no linefeed
IndexLF(data) ==
    LET at == {i \in 1..Len(data) : data[i] = 10}
    IN IF at = {} THEN 0 ELSE CHOOSE i \in at : \A j \in at : i <= j

\* bufio.ScanLines drops one trailing carriage return
dropCR(data) ==
    IF Len(data) > 0 /\ data[Len(data)] = 13 THEN SubSeq(data, 1, Len(data) - 1)
    ELSE data

\* the scanner's buffer limit, bufio.MaxScanTokenSize (64 * 1024), scaled
\* down to the size of the lines of the model
maxTokenSize == 6

\* s.Scan() with bufio.ScanLines on the input still to come: the next line
\* without its terminator; input that ends, cleanly or in a fault, without a
\* linefeed gives its last octets as a line; a line that fills the buffer
\* before its linefeed is found ends the scan with ErrTooLong
Scan(rest) ==
    LET i == IndexLF(rest)
        n == IF i > 0 THEN i - 1 ELSE Len(rest)
    IN IF n >= maxTokenSize
       THEN [ok |-> FALSE, token |-> <<>>, rest |-> rest, err |-> "ErrTooLong"]
       ELSE IF i > 0
       THEN [ok |-> TRUE, token |-> dropCR(Sl(rest, 0, i - 1)),
             rest |-> SlFrom(rest, i), err |-> "none"]
       ELSE IF Len(rest) > 0
       THEN [ok |-> TRUE, token |-> dropCR(rest), rest |-> <<>>, err |-> "none"]
       ELSE [ok |-> FALSE, token |-> <<>>, rest |-> <<>>, err |-> "none"]

\* a loop that removes trailing spaces only
RECURSIVE TrimSpaces(_)
TrimSpaces(line) ==
    IF Len(line) > 0 /\ line[Len(line)] = 32
    THEN TrimSpaces(SubSeq(line, 1, Len(line) - 1))
    ELSE line

\* Remove trailing whitespace: the loop over line[i] == 0x20 || line[i] == 0x09
RECURSIVE TrimTrailing(_)
TrimTrailing(line) ==
    IF Len(line) > 0 /\ line[Len(line)] \in {32, 9}
    THEN TrimTrailing(SubSeq(line, 1, Len(line) - 1))
    ELSE line

\* Append to hash: h.Write(crlf) unless first, then h.Write(line)
HashLine(h, line) ==
    [first |-> FALSE, data |-> h.data \o (IF h.first THEN <<>> ELSE crlf) \o line]

\* Pass through dash-encoded: tmp is "- " if the line starts with '-', then
\* the line and a linefeed
DashEncode(line) ==
    (IF Len(line) > 0 /\ line[1] = 45 THEN <<45, 32>> ELSE <<>>) \o line \o <<10>>

\* the base64 alphabet
B64Char(v) ==
    IF v < 26 THEN 65 + v
    ELSE IF v < 52 THEN 97 + (v - 26)
    ELSE IF v < 62 THEN 48 + (v - 52)
    ELSE IF v = 62 THEN 43 ELSE 47

\* base64 with padding
Base64(data) ==
    LET n    == Len(data)
        at(j) == IF j <= n THEN data[j] ELSE 0
        ch(i) ==
            LET q == (i - 1) \div 4
                r == (i - 1) % 4
                a == at(3 * q + 1)
                b == at(3 * q + 2)
                c == at(3 * q + 3)
            IN IF r = 0 THEN B64Char(a \div 4)
               ELSE IF r = 1 THEN B64Char((a % 4) * 16 + (b \div 16))
               ELSE IF r = 2
               THEN (IF 3 * q + 2 > n THEN 61 ELSE B64Char((b % 16) * 4 + (c \div 64)))
               ELSE (IF 3 * q + 3 > n THEN 61 ELSE B64Char(c % 64))
    IN Tup([i \in 1..(4 * ((n + 2) \div 3)) |-> ch(i)])

\* the column at which the armor body is wrapped
ArmorWidth == 64

\* the body in lines of at most ArmorWidth characters
RECURSIVE Wrap(_)
Wrap(chars) ==
    IF Len(chars) = 0 THEN <<>>
    ELSE LET n == Min(ArmorWidth, Len(chars))
         IN SubSeq(chars, 1, n) \o <<10>> \o Wrap(SubSeq(chars, n + 1, Len(chars)))

ArmorBegin ==
    Dashes \o <<66, 69, 71, 73, 78, 32, 80, 71, 80, 32, 83, 73, 71, 78, 65, 84, 85,
                82, 69>> \o Dashes \o <<10, 10>>

ArmorEnd ==
    Dashes \o <<69, 78, 68, 32, 80, 71, 80, 32, 83, 73, 71, 78, 65, 84, 85, 82, 69>>
      \o Dashes \o <<10>>

\* func Armor(buf []byte) []byte
Armor(buf) == ArmorBegin \o Wrap(Base64(buf)) \o ArmorEnd

\* sig := Armor(k.sign(in)) with the text signature type and the digest of
\* the octets written to h
ClearsignSig(k, h, when) ==
    Armor(sign(k, [h          |-> HWrite(sha256New, h.data),
                   sigtype    |-> 1,
                   when       |-> when,
                   subpackets |-> <<fingerprint(KeyID(k))>>]))

\* the packet k.sign(in) that Clearsign hands to Armor
ClearsignPacket(k, h, when) ==
    sign(k, [h          |-> HWrite(sha256New, h.data),
             sigtype    |-> 1,
             when       |-> when,
             subpackets |-> <<fingerprint(KeyID(k))>>])

\* a pipe whose writer never learns that an end was closed
WriteNeverClosed(p) == FALSE

\* the done channel as Write sees it: either end has been closed
WriteClosed(p) == p.rclosed \/ p.werr # "none"

\* the done channel as Read sees it
ReadClosed(p) == p.rclosed \/ p.werr # "none"

\* w.Write(b) is called: it fails at once on a closed pipe, else it offers b
\* to the reader and blocks
WriteStart(p, b, kind) ==
    IF WriteClosed(p) THEN p ELSE [p EXCEPT !.pending = b, !.kind = kind]

\* a goroutine that goes on without closing the writer
CloseWithErrorSkipped(p, err) == p

\* w.CloseWithError(err): the first error stays
CloseWithError(p, err) == IF p.werr = "none" THEN [p EXCEPT !.werr = err] ELSE p

(***************************************************************************)
(* State.  One SignKey k and its caller: ret is what the last operation    *)
(* returned ([op, err, val, aux]: aux is what the caller gave or knew),    *)
(* wire the Packet value the caller holds for Load, with what the caller   *)
(* knows about it, now the wall clock in seconds.  dropped records that a  *)
(* mutator has discarded a filled cache.  The other variables belong to    *)
(* one call of Clearsign: pc is the position of its goroutine, scanner the *)
(* input not yet scanned and whether reading it ends in a fault, hin the   *)
(* octets written to the digest h, pipe the io.Pipe, rd the consumer.      *)
(***************************************************************************)
VARIABLES k, ret, wire, now, dropped, pc, scanner, hin, pipe, rd

csvars == <<pc, scanner, hin, pipe, rd>>

vars == <<k, ret, wire, now, dropped, csvars>>

\* bounds of the model
NumSeeds == 2
MaxNow == 1
MaxLoads == 2

\* seed n starts with n-1 zero octets: its MPI is shorter than 32 octets
SeedOf(n) ==
    Tup([i \in 1..32 |-> IF i < n THEN 0 ELSE ((n * 37 + i * 11) % 255) + 1])

Seeds == {SeedOf(n) : n \in 1..NumSeeds}

\* creation times: the largest uint32 and one beyond uint32
Times == {<<0, 0, 0, 0, 255, 255, 255, 255>>, <<0, 0, 0, 1, 0, 0, 0, 5>>}

Pass(b) == [isNil |-> FALSE, b |-> b]
NilPass == [isNil |-> TRUE, b |-> <<>>]

\* passphrases: the empty one and "a"
Passphrases == {Pass(<<>>), Pass(<<97>>)}

\* what rand.Read may deliver: a salt of eight "a" and another one
Salts == {Tup([i \in 1..8 |-> 97]), <<17, 240, 3, 98, 151, 6, 77, 200>>}
IVs == {Tup([i \in 1..16 |-> (i * 29) % 256])}

\* documents to sign
Docs == {<<>>, <<104, 105>>}

\* readers handed to Sign: each document read to its end, and a failing read
Sources ==
    {[data |-> d, fault |-> FALSE] : d \in Docs} \cup {[data |-> <<104>>, fault |-> TRUE]}

NoRet == [op |-> "none", err |-> "ok", val |-> <<>>, aux |-> <<>>]
NoWire ==
    [Tag |-> 0, Body |-> <<>>, Slack |-> <<>>, err |-> "none", info |-> <<>>,
     mut |-> <<>>, loads |-> 0, touched |-> FALSE]

\* io.Pipe(): nothing offered by a Write, neither end closed
NoPipe == [pending |-> <<>>, kind |-> "none", rclosed |-> FALSE, werr |-> "none"]

\* the consumer: octets read, how many of them from the signature block,
\* the terminal result of its reads, reads made with a one-octet buffer
NoRd == [data |-> <<>>, sig |-> 0, term |-> "none", small |-> 0]

NoScanner == [rest |-> <<>>, fault |-> FALSE, err |-> "none", doc |-> <<>>]

Init ==
    /\ k = ZeroKey
    /\ ret = NoRet
    /\ wire = NoWire
    /\ now = 0
    /\ dropped = FALSE
    /\ pc = "idle"
    /\ scanner = NoScanner
    /\ hin = <<>>
    /\ pipe = NoPipe
    /\ rd = NoRd

Seeded == k.Key # <<>>

SeedStep ==
    \E seed \in Seeds :
        /\ k' = Seed(k, seed)
        /\ ret' = [NoRet EXCEPT !.op = "Seed"]
        /\ dropped' = (dropped \/ k.packet # <<>>)
        /\ UNCHANGED <<wire, now, csvars>>

SetCreatedStep ==
    \E time \in Times :
        /\ k' = SetCreated(k, time)
        /\ ret' = [NoRet EXCEPT !.op = "SetCreated"]
        /\ dropped' = (dropped \/ k.packet # <<>>)
        /\ UNCHANGED <<wire, now, csvars>>

PacketStep ==
    /\ Seeded
    /\ ret' = [NoRet EXCEPT !.op = "Packet", !.val = Packet(k)]
    /\ k' = AfterPacket(k)
    /\ UNCHANGED <<wire, now, dropped, csvars>>

PubPacketStep ==
    /\ Seeded
    /\ ret' = [NoRet EXCEPT !.op = "PubPacket", !.val = PubPacket(k)]
    /\ k' = AfterPacket(k)
    /\ UNCHANGED <<wire, now, dropped, csvars>>

KeyIDStep ==
    /\ Seeded
    /\ ret' = [NoRet EXCEPT !.op = "KeyID", !.val = KeyID(k)]
    /\ k' = AfterPacket(k)
    /\ UNCHANGED <<wire, now, dropped, csvars>>

EncPacketStep ==
    /\ Seeded
    /\ \E passphrase \in Passphrases, salt \in Salts, iv \in IVs :
        /\ ret' = [NoRet EXCEPT !.op = "EncPacket",
                                !.val = EncPacket(k, passphrase.b, salt, iv),
                                !.aux = passphrase]
        /\ k' = AfterEncPacket(k, passphrase.b, salt, iv)
        /\ UNCHANGED <<wire, now, dropped, csvars>>

SignStep ==
    /\ Seeded
    /\ \E src \in Sources :
        LET r == Sign(k, src, int64OfNat(now))
        IN /\ ret' = [op |-> "Sign", err |-> r.err, val |-> r.packet,
                   aux |-> [src |-> src, when |-> now]]
           /\ k' = AfterSign(k, src)
           /\ UNCHANGED <<wire, now, dropped, csvars>>

\* the wall clock advances
Tick ==
    /\ now < MaxNow
    /\ now' = now + 1
    /\ UNCHANGED <<k, ret, wire, dropped, csvars>>

\* octet strings a caller may hand to Certify as a packet
UidPacket == <<192 + 13, 2, 104, 105>>
BadPackets == {<<192 + 6>>, <<192 + 13, 9, 104, 105>>}

CertifyStep ==
    /\ Seeded
    /\ \E key \in {PubPacket(k)} \cup BadPackets, uid \in {UidPacket} \cup BadPackets :
        /\ ret' = [op  |-> "Certify",
                   err |-> "ok",
                   val |-> Certify(k, key, uid, int64OfNat(now)),
                   aux |-> <<ParsePacket(key).err, ParsePacket(uid).err,
                             key, uid, now>>]
        /\ k' = AfterPacket(k)
        /\ UNCHANGED <<wire, now, dropped, csvars>>

Next ==
    \/ SeedStep
    \/ SetCreatedStep
    \/ PacketStep
    \/ PubPacketStep
    \/ KeyIDStep
    \/ EncPacketStep
    \/ SignStep
    \/ Tick
    \/ CertifyStep

Spec == Init /\ [][Next]_vars

(***************************************************************************)
(* Loading.  The caller exports a packet from k (Packet or EncPacket),     *)
(* hands the octets, possibly altered on the way, to ParsePacket, and      *)
(* calls Load with the Packet value, on the same key or on a new one.      *)
(* SpecLoad follows one packet: the key is prepared before it is parsed.   *)
(***************************************************************************)

\* body lengths at which a packet may be cut: both sides of every field
\* boundary Load reads, and one octet short of the whole
CutLens(n) ==
    {c \in {0, 1, 4, 5, 18, 19, 50, 51, 52, 53, 54, 55, 62, 63, 64, 79, 80, 81} : c < n}
        \cup {n - 1}

\* body offsets of octets that may be altered: version, OID, public key,
\* protection mode, cipher, S2K mode, hash, count, first and last octet of
\* the secret part
IncAts(n) == {c \in {0, 9, 19, 51, 52, 53, 54, 63, 80} : c < n} \cup {n - 1}

\* what may happen to the octets between export and ParsePacket
Mutations(packet) ==
    LET n == Len(packet) - 2
    IN {[kind |-> "none", at |-> 0]}
       \cup {[kind |-> "cut", at |-> c] : c \in CutLens(n)}
       \cup {[kind |-> "short", at |-> c] : c \in CutLens(n)}
       \cup {[kind |-> "inc", at |-> c] : c \in IncAts(n)}
       \cup {[kind |-> "tag", at |-> t] : t \in {6, 13}}
       \cup {[kind |-> "hdr", at |-> 0]}

\* the octets after mutation m.  cut: the buffer ends after m.at body octets;
\* short: the length octet says m.at but the buffer keeps all its octets;
\* inc: body octet m.at is changed; tag: the header names another tag;
\* hdr: the buffer ends within the header
Mutate(packet, m) ==
    CASE m.kind = "none"  -> packet
      [] m.kind = "cut"   -> <<packet[1], m.at>> \o Sl(packet, 2, 2 + m.at)
      [] m.kind = "short" -> Tup([packet EXCEPT ![2] = m.at])
      [] m.kind = "inc"   -> Tup([packet EXCEPT ![m.at + 3] = (@ + 1) % 256])
      [] m.kind = "tag"   -> Tup([packet EXCEPT ![1] = 192 + m.at])
      [] m.kind = "hdr"   -> <<packet[1]>>

\* the caller knows what it exported: seed, creation time, Key ID,
\* passphrase, and whether the octets are a cleartext packet ("clear"), a
\* protected one ("enc"), or what Packet returns from a cache EncPacket has
\* written into ("stale")
ExportInfo(passphrase, kind) ==
    [seed |-> Seckey(k), created |-> k.created, keyid |-> KeyID(k),
     pass |-> passphrase, kind |-> kind]

ExportPacketStep ==
    /\ Seeded
    /\ wire = NoWire
    /\ ret' = [NoRet EXCEPT !.op = "Packet", !.val = Packet(k),
                            !.aux = ExportInfo(NilPass,
                                IF Packet(k) = BuildPacket(k) THEN "clear" ELSE "stale")]
    /\ k' = AfterPacket(k)
    /\ UNCHANGED <<wire, now, dropped, csvars>>

ExportEncPacketStep ==
    /\ Seeded
    /\ wire = NoWire
    /\ \E passphrase \in Passphrases, salt \in Salts, iv \in IVs :
        /\ ret' = [NoRet EXCEPT !.op = "EncPacket",
                                !.val = EncPacket(k, passphrase.b, salt, iv),
                                !.aux = ExportInfo(passphrase, "enc")]
        /\ k' = AfterEncPacket(k, passphrase.b, salt, iv)
        /\ UNCHANGED <<wire, now, dropped, csvars>>

PrepareSeedStep == wire = NoWire /\ ret.val = <<>> /\ SeedStep

PrepareSetCreatedStep == wire = NoWire /\ ret.val = <<>> /\ SetCreatedStep

\* ParsePacket on the exported octets
ParseStep ==
    /\ ret.op \in {"Packet", "EncPacket"}
    /\ wire = NoWire
    /\ \E m \in Mutations(ret.val) :
        LET p == ParsePacket(Mutate(ret.val, m))
        IN wire' = [Tag |-> p.Tag, Body |-> p.Body, Slack |-> p.Slack,
                    err |-> p.err, info |-> ret.aux, mut |-> m,
                    loads |-> 0, touched |-> FALSE]
    /\ ret' = [NoRet EXCEPT !.op = "ParsePacket"]
    /\ UNCHANGED <<k, now, dropped, csvars>>

\* var key SignKey: the caller loads into a new key
NewKeyStep ==
    /\ ret.op = "ParsePacket"
    /\ k' = ZeroKey
    /\ ret' = [NoRet EXCEPT !.op = "NewKey"]
    /\ UNCHANGED <<wire, now, dropped, csvars>>

LoadStep ==
    /\ wire # NoWire
    /\ wire.err = "ok"
    /\ wire.loads < MaxLoads
    /\ \E passphrase \in Passphrases \cup {NilPass} :
        LET raw == LoadRaw(k, wire, passphrase)
            r   == Load(k, wire, passphrase)
        IN /\ k' = r.k
           /\ wire' = [wire EXCEPT !.Body = r.Body,
                                   !.loads = @ + 1,
                                   !.touched = (@ \/ r.Body # wire.Body)]
           /\ ret' = [op |-> "Load", err |-> r.err, val |-> <<>>,
                      aux |-> [pass |-> passphrase, raw |-> raw.err,
                               touched |-> wire.touched]]
    /\ UNCHANGED <<now, dropped, csvars>>

NextLoad ==
    \/ PrepareSeedStep
    \/ PrepareSetCreatedStep
    \/ ExportPacketStep
    \/ ExportEncPacketStep
    \/ ParseStep
    \/ NewKeyStep
    \/ LoadStep

SpecLoad == Init /\ [][NextLoad]_vars

(***************************************************************************)
(* Clearsign.  The goroutine started by Clearsign (the producer) and the   *)
(* caller reading or closing the returned reader (the consumer).  A Write  *)
(* offers its octets and returns once every one of them has been read or   *)
(* the pipe has been closed.                                               *)
(***************************************************************************)

MaxLines == 2
MaxSmallReads == 2

\* input lines: trailing space and tab, dashes first, a dash after a space,
\* whitespace only (empty once trimmed), and one as long as the scanner's
\* buffer
Lines ==
    {<<97, 32, 9>>, <<45, 45, 32, 100>>, <<32, 45>>, <<9, 32>>,
     Tup([i \in 1..maxTokenSize |-> 97])}

LineSeqs == UNION {[1..m -> Lines] : m \in 0..MaxLines}

\* line terminators of the input
Eols == {<<10>>, crlf}

\* the lines of a document, each followed by eol, the last one only if the
\* document ends with a terminator
RECURSIVE Text(_, _, _, _)
Text(lines, eol, terminated, i) ==
    IF i > Len(lines) THEN <<>>
    ELSE lines[i] \o (IF i < Len(lines) \/ terminated THEN eol ELSE <<>>)
           \o Text(lines, eol, terminated, i + 1)

\* buffers the consumer reads with
BufSizes == {1, 512}

\* Clearsign(src) has been called on a key with seed and creation time set:
\* the goroutine is about to write the opening lines
InitClearsign ==
    /\ k = Seed(SetCreated(ZeroKey, <<0, 0, 0, 0, 255, 255, 255, 255>>), SeedOf(1))
    /\ ret = NoRet
    /\ wire = NoWire
    /\ now = 0
    /\ dropped = FALSE
    /\ pc = "open"
    /\ \E lines \in LineSeqs, eol \in Eols, terminated \in BOOLEAN, fault \in BOOLEAN :
        /\ lines = <<>> => (terminated /\ eol = <<10>>)
        /\ scanner = [rest  |-> Text(lines, eol, terminated, 1),
                      fault |-> fault,
                      err   |-> "none",
                      doc   |-> Tup(lines)]
    /\ hin = [first |-> TRUE, data |-> <<>>]
    /\ pipe = NoPipe
    /\ rd = NoRd

\* w.Write(open)
WriteOpen ==
    /\ pc = "open"
    /\ pipe' = WriteStart(pipe, open, "open")
    /\ pc' = IF WriteClosed(pipe) THEN "done" ELSE "wopen"
    /\ UNCHANGED <<k, ret, wire, now, dropped, scanner, hin, rd>>

\* for s.Scan() { ... w.Write(tmp) }: one line is scanned, trimmed, hashed,
\* dash-encoded and offered to the pipe; or the loop ends, and s.Err() is
\* ErrTooLong, or the fault of the read that failed, or nil
ScanStep ==
    /\ pc = "scan"
    /\ LET t == Scan(scanner.rest)
           line == TrimTrailing(t.token)
       IN IF t.ok
          THEN /\ scanner' = [scanner EXCEPT !.rest = t.rest]
               /\ hin' = HashLine(hin, line)
               /\ pipe' = WriteStart(pipe, DashEncode(line), "line")
               /\ pc' = IF WriteClosed(pipe) THEN "done" ELSE "wline"
          ELSE /\ pc' = "err"
               /\ scanner' = [scanner EXCEPT !.err =
                                 IF t.err # "none" THEN t.err
                                 ELSE IF scanner.fault THEN "fault" ELSE "none"]
               /\ UNCHANGED <<hin, pipe>>
    /\ UNCHANGED <<k, ret, wire, now, dropped, rd>>

\* if err := s.Err(); err != nil { w.CloseWithError(err) }, and on
ErrStep ==
    /\ pc = "err"
    /\ pipe' = IF scanner.err # "none" THEN CloseWithError(pipe, scanner.err) ELSE pipe
    /\ pc' = "sign"
    /\ UNCHANGED <<k, ret, wire, now, dropped, scanner, hin, rd>>

\* sig := Armor(k.sign(in)); w.Write(sig)
SigStep ==
    /\ pc = "sign"
    /\ k' = AfterPacket(k)
    /\ pipe' = WriteStart(pipe, ClearsignSig(k, hin, int64OfNat(now)), "sig")
    /\ pc' = IF WriteClosed(pipe) THEN "done" ELSE "wsig"
    /\ UNCHANGED <<ret, wire, now, dropped, scanner, hin, rd>>

\* a Write returns nil: every octet it offered has been read
WriteReturn ==
    /\ pc \in {"wopen", "wline", "wsig"}
    /\ pipe.pending = <<>>
    /\ pc' = IF pc = "wsig" THEN "close" ELSE "scan"
    /\ pipe' = [pipe EXCEPT !.kind = "none"]
    /\ UNCHANGED <<k, ret, wire, now, dropped, scanner, hin, rd>>

\* a Write returns an error: the pipe was closed before every octet was
\* read, and the goroutine returns
WriteFail ==
    /\ pc \in {"wopen", "wline", "wsig"}
    /\ pipe.pending # <<>>
    /\ WriteClosed(pipe)
    /\ pc' = "done"
    /\ pipe' = [pipe EXCEPT !.pending = <<>>, !.kind = "none"]
    /\ UNCHANGED <<k, ret, wire, now, dropped, scanner, hin, rd>>

\* w.Close()
CloseStep ==
    /\ pc = "close"
    /\ pipe' = CloseWithError(pipe, "EOF")
    /\ pc' = "done"
    /\ UNCHANGED <<k, ret, wire, now, dropped, scanner, hin, rd>>

\* the consumer's Read with a buffer of size octets: part of what a Write
\* offers, or the terminal result once the writer is closed
ReadStep ==
    /\ rd.term = "none"
    /\ ~pipe.rclosed
    /\ \E size \in BufSizes :
        /\ size = 1 => rd.small < MaxSmallReads
        /\ IF pipe.pending # <<>>
           THEN LET n == Min(size, Len(pipe.pending))
                IN /\ rd' = [rd EXCEPT
                               !.data = @ \o SubSeq(pipe.pending, 1, n),
                               !.sig = @ + (IF pipe.kind = "sig" THEN n ELSE 0),
                               !.small = @ + (IF size = 1 THEN 1 ELSE 0)]
                   /\ pipe' = [pipe EXCEPT
                                 !.pending = SubSeq(@, n + 1, Len(@))]
           ELSE /\ ReadClosed(pipe)
                /\ rd' = [rd EXCEPT !.term = pipe.werr]
                /\ UNCHANGED pipe
    /\ UNCHANGED <<k, ret, wire, now, dropped, pc, scanner, hin>>

\* the consumer's Close
CloseReadStep ==
    /\ ~pipe.rclosed
    /\ pipe' = [pipe EXCEPT !.rclosed = TRUE]
    /\ UNCHANGED <<k, ret, wire, now, dropped, pc, scanner, hin, rd>>

\* the steps of the goroutine other than SigStep
Producer ==
    \/ WriteOpen
    \/ ScanStep
    \/ ErrStep
    \/ WriteReturn
    \/ WriteFail
    \/ CloseStep

Consumer ==
    \/ ReadStep
    \/ CloseReadStep

NextClearsign ==
    \/ WriteOpen
    \/ ScanStep
    \/ ErrStep
    \/ SigStep
    \/ WriteReturn
    \/ WriteFail
    \/ CloseStep
    \/ ReadStep
    \/ CloseReadStep

SpecClearsign == InitClearsign /\ [][NextClearsign]_vars

\* the goroutine runs whenever it can, and the consumer keeps its side of
\* the contract: it goes on reading, or closes.  SigStep is enabled exactly
\* at pc = "sign" and is the only step that leaves it, so weak fairness of
\* SigStep is stated as: the goroutine does not stay at "sign" for ever
LiveClearsign ==
    /\ SpecClearsign
    /\ WF_vars(Producer)
    /\ []<>(pc # "sign")
    /\ WF_vars(Consumer)

(***************************************************************************)
(* Claims settled on Spec                                                  *)
(***************************************************************************)

\* a key built afresh from a seed and a creation time: nothing cached
FreshKey(seed, created) == Seed(SetCreated(ZeroKey, created), seed)

\* C3 as stated: two runs of Sign on the same key (same seed, same creation
\* time) and the same document return the same packet, whatever the moment
\* of each call
C3_SameDocSamePacket ==
    [][(/\ ret.op = "Sign" /\ ret.err = "ok"
        /\ ret'.op = "Sign" /\ ret'.err = "ok"
        /\ ret'.aux.src = ret.aux.src
        /\ Seckey(k') = Seckey(k) /\ k'.created = k.created)
       => ret'.val = ret.val]_vars

\* C3 as amended: the packet Sign returns is fixed by the seed, the creation
\* time, the document and the second in which the call is made: it is the
\* packet a freshly built key returns for these four, whatever was cached
\* or called before
C3_SignDetermined ==
    (ret.op = "Sign" /\ ret.err = "ok")
        => ret.val = Sign(FreshKey(Seckey(k), k.created), ret.aux.src,
                          int64OfNat(ret.aux.when)).packet

\* C3 witness: a signature made after a cached packet was discarded by a
\* mutator and after the clock moved
C3_Witness ==
    /\ ret.op = "Sign" /\ ret.err = "ok"
    /\ dropped
    /\ ret.aux.when > 0
    /\ Len(ret.val) > 8

\* the public-key packet body of a public key and a creation time
PubBody(pub, created) ==
    <<4>> \o uint32(created) \o <<22, 9>> \o oid \o <<1, 7, 64>> \o pub

\* C4: in every state a seeded key can reach, KeyID() and PubPacket() are
\* those of the current public key and the current creation time: a packet
\* cached before Seed or SetCreated is never used, and the Key ID is the
\* SHA-1 of the framed public-key body and of nothing else
C4_KeyIDFresh ==
    Seeded =>
        /\ KeyID(k) = sha1Sum(<<153, 0, 51>> \o PubBody(Pubkey(k), k.created))
        /\ PubPacket(k) = <<192 + 6, 51>> \o PubBody(Pubkey(k), k.created)
        /\ (ret.op = "KeyID" => ret.val = KeyID(k))
        /\ (ret.op = "PubPacket" => ret.val = PubPacket(k))

\* C4 witness: KeyID() returned after a mutator discarded a filled cache
C4_Witness ==
    /\ ret.op = "KeyID"
    /\ dropped
    /\ k.packet # <<>>
    /\ ret.val = sha1Sum(<<153, 0, 51>> \o PubBody(Pubkey(k), k.created))

\* C10 as stated: when the key octets or the identity octets do not parse,
\* Certify surfaces the malformed-packet error and returns no signature
C10_CertifySurfacesParseError ==
    (ret.op = "Certify" /\ (ret.aux[1] # "ok" \/ ret.aux[2] # "ok"))
        => (ret.err = "InvalidPacketErr" /\ ret.val = <<>>)

(***************************************************************************)
(* Claims settled on SpecLoad                                              *)
(***************************************************************************)

\* the last step was a Load
Loaded == ret.op = "Load"

\* the packet under Load came from EncPacket
Protected == wire.info.kind = "enc"

\* the packet under Load came from Packet, with the secret in the clear
Cleartext == wire.info.kind = "clear"

\* the octets reached ParsePacket as exported, and no earlier Load has
\* written into the packet body
Untouched == wire.mut.kind = "none" /\ ~ret.aux.touched

\* the key S2K derives from a passphrase with the packet's salt and count
WireKey(passphrase) ==
    s2k(passphrase.b, Sl(wire.Body, 55, 63), decodeS2K(wire.Body[64]))

\* C1: a packet returned by EncPacket(passphrase), for a creation time within
\* 32 bits and a non-nil passphrase, parsed and loaded with the same
\* passphrase, gives no error and a key with the same seed, creation time
\* and Key ID as before the export.
C1_RoundTrip ==
    (/\ Loaded
     /\ Protected
     /\ Untouched
     /\ ret.aux.pass = wire.info.pass
     /\ Sl(wire.info.created, 0, 4) = <<0, 0, 0, 0>>)
    => /\ ret.err = "ok"
       /\ Seckey(k) = wire.info.seed
       /\ k.created = wire.info.created
       /\ KeyID(k) = wire.info.keyid

C1_Witness ==
    /\ Loaded
    /\ Protected
    /\ Untouched
    /\ ret.aux.pass = wire.info.pass
    /\ wire.info.created = <<0, 0, 0, 0, 255, 255, 255, 255>>
    /\ wire.info.seed = SeedOf(2)
    /\ ret.err = "ok"
    /\ KeyID(k) = wire.info.keyid

\* C2 as stated: Load of a protected packet returns DecryptKeyErr whenever
\* the passphrase is nil or differs from the one that protected the packet.
C2_DifferentPassphraseRejected ==
    (/\ Loaded
     /\ Protected
     /\ Untouched
     /\ (ret.aux.pass.isNil \/ ret.aux.pass # wire.info.pass))
    => ret.err = "DecryptKeyErr"

\* C2: Load of a protected packet returns DecryptKeyErr whenever the
\* passphrase is nil or the key S2K derives from it, with the packet's salt
\* and count, differs from the key that protected the packet.
C2_DifferentKeyRejected ==
    (/\ Loaded
     /\ Protected
     /\ Untouched
     /\ (ret.aux.pass.isNil \/ WireKey(ret.aux.pass) # WireKey(wire.info.pass)))
    => ret.err = "DecryptKeyErr"

C2_Witness ==
    /\ Loaded
    /\ Protected
    /\ Untouched
    /\ ~ret.aux.pass.isNil
    /\ WireKey(ret.aux.pass) # WireKey(wire.info.pass)
    /\ ret.err = "DecryptKeyErr"

\* C5: for a packet of tag 5 with a body of any length and content, Load
\* returns one of its declared outcomes, and every out-of-range access while
\* it reads the body is reported as InvalidPacketErr.
C5_FaultsBecomeInvalidPacket ==
    (Loaded /\ wire.Tag = 5)
    => /\ ret.err \in {"ok", "InvalidPacketErr", "UnsupportedPacketErr", "DecryptKeyErr"}
       /\ (ret.aux.raw = "panic" => ret.err = "InvalidPacketErr")

C5_Witness ==
    /\ Loaded
    /\ wire.Tag = 5
    /\ Len(wire.Body) = 0
    /\ ret.aux.raw = "panic"
    /\ ret.err = "InvalidPacketErr"

\* C6: Load returns success only if the public key of the recovered seed
\* equals body[19:51]; when the seed is recovered and the two differ, from a
\* cleartext or a protected packet, Load returns InvalidPacketErr.
C6_PubkeyMismatchRejected ==
    Loaded
    => /\ (ret.err = "ok" => Pubkey(k) = Sl(wire.Body, 19, 51))
       /\ (/\ wire.mut = [kind |-> "inc", at |-> 19]
           /\ ~ret.aux.touched
           /\ (Cleartext \/ (Protected /\ ret.aux.pass = wire.info.pass)))
          => /\ Seckey(k) = wire.info.seed
             /\ Pubkey(k) # Sl(wire.Body, 19, 51)
             /\ ret.err = "InvalidPacketErr"

C6_Witness ==
    /\ Loaded
    /\ Protected
    /\ wire.mut = [kind |-> "inc", at |-> 19]
    /\ ~ret.aux.touched
    /\ ret.aux.pass = wire.info.pass
    /\ Pubkey(k) # Sl(wire.Body, 19, 51)
    /\ ret.err = "InvalidPacketErr"

(***************************************************************************)
(* Claims settled on SpecClearsign and LiveClearsign                       *)
(***************************************************************************)

\* a line without its trailing spaces and tabs: its longest prefix that is
\* empty or ends in another octet
Trimmed(line) ==
    LET ends == {n \in 0..Len(line) : n = 0 \/ line[n] \notin {32, 9}}
    IN SubSeq(line, 1, CHOOSE n \in ends : \A m \in ends : m <= n)

\* a line with "- " before it exactly when it starts with '-'
Escaped(line) ==
    IF line # <<>> /\ Head(line) = 45 THEN <<45, 32>> \o line ELSE line

\* the passthrough of lines i.. of a document, one linefeed after each
RECURSIVE Passthrough(_, _)
Passthrough(doc, i) ==
    IF i > Len(doc) THEN <<>>
    ELSE Escaped(Trimmed(doc[i])) \o <<10>> \o Passthrough(doc, i + 1)

\* the trimmed lines i.. of a document joined by CRLF
RECURSIVE DigestInput(_, _)
DigestInput(doc, i) ==
    IF i > Len(doc) THEN <<>>
    ELSE Trimmed(doc[i]) \o (IF i < Len(doc) THEN <<13, 10>> ELSE <<>>)
           \o DigestInput(doc, i + 1)

\* the armored text signature over a digest input
SignatureBlock(input) ==
    Armor(sign(k, [h          |-> HWrite(sha256New, input),
                   sigtype    |-> 1,
                   when       |-> int64OfNat(now),
                   subpackets |-> <<fingerprint(KeyID(k))>>]))

\* every line of the input, with a carriage return before its linefeed, is
\* shorter than the scanner's buffer
ShortLines ==
    \A i \in 1..Len(scanner.doc) : Len(scanner.doc[i]) + 1 < maxTokenSize

\* the consumer has read what the claim describes: the opening lines, then
\* each input line trimmed of trailing spaces and tabs, with "- " before it
\* exactly when it then starts with '-', and one linefeed, then the armored
\* signature once; and the digest was fed the trimmed lines joined by CRLF
Transformed ==
    /\ rd.term = "EOF"
    /\ hin.data = DigestInput(scanner.doc, 1)
    /\ rd.data = open \o Passthrough(scanner.doc, 1)
                   \o SignatureBlock(DigestInput(scanner.doc, 1))

\* C7 as stated: when the input is read without fault and the consumer has
\* read the stream to its end, what it has read is the opening lines, the
\* transformed lines and the armored signature, for every input.
C7_LineTransform ==
    (~scanner.fault /\ rd.term # "none") => Transformed

\* C7 for lines shorter than the scanner's buffer: the same property holds.
C7_ShortLineTransform ==
    (~scanner.fault /\ rd.term # "none" /\ ShortLines) => Transformed

C7_Witness ==
    /\ rd.term = "EOF"
    /\ scanner.doc = <<(<<45, 45, 32, 100>>), (<<97, 32, 9>>)>>
    /\ rd.small = MaxSmallReads
    /\ rd.sig > 0

\* C8: when reading the input ends in a fault, the consumer never reads an
\* octet of the signature block and never reaches a clean end of stream, and
\* its reads, unless it closes, end with that fault as the terminal error.
C8_FaultIsTerminal ==
    /\ [](scanner.fault => (rd.sig = 0 /\ rd.term # "EOF"))
    /\ [](scanner.err = "fault" => rd.term \in {"none", "fault"})
    /\ (scanner.err = "fault" ~> (rd.term = "fault" \/ pipe.rclosed))

C8_Witness ==
    /\ scanner.err = "fault"
    /\ scanner.doc # <<>>
    /\ rd.term = "fault"
    /\ rd.data = open \o Passthrough(scanner.doc, 1)

\* C9: when the consumer goes on reading or closes, the producer eventually
\* terminates; and once the consumer has closed, no Write offers octets any
\* more and nothing more is read.
C9_ProducerTerminates ==
    /\ <>(pc = "done")
    /\ [][pipe.rclosed => (/\ pipe'.pending \in {<<>>, pipe.pending}
                           /\ rd'.data = rd.data)]_vars

C9_Witness ==
    /\ pc = "done"
    /\ pipe.rclosed
    /\ pipe.werr = "none"
    /\ scanner.rest # <<>>
    /\ Len(rd.data) > Len(open)


(***************************************************************************)
(* Signing.  The five operations that end in sign, on a key whose seed,    *)
(* creation time and expiration change between the calls.                  *)
(***************************************************************************)

\* expirations stored in a key: none, and one that lies before either
\* creation time modulo 2^32
Expirations == {int64OfNat(0), <<0, 0, 0, 1, 0, 0, 0, 4>>}

\* k.expires = time, the store into the field SelfSign reads
ExpiresStep ==
    \E time \in Expirations :
        /\ k' = [k EXCEPT !.expires = time]
        /\ ret' = [NoRet EXCEPT !.op = "SetExpires"]
        /\ UNCHANGED <<wire, now, dropped, csvars>>

\* the identity is "hi", flags every combination of the two low bits
SelfSignStep ==
    /\ Seeded
    /\ \E userid \in {[ID |-> <<104, 105>>]}, flags \in 0..3 :
        /\ ret' = [op  |-> "SelfSign",
                   err |-> "ok",
                   val |-> SelfSign(k, userid, int64OfNat(now), flags),
                   aux |-> [userid |-> userid, flags |-> flags, when |-> now]]
        /\ k' = AfterPacket(k)
        /\ UNCHANGED <<wire, now, dropped, csvars>>

\* the subkey has either creation time, and an expiration or none
BindStep ==
    /\ Seeded
    /\ \E subkey \in {[Key |-> PubOf(SeedOf(2)), created |-> c, expires |-> e] :
                          c \in Times, e \in Expirations} :
        /\ ret' = [op  |-> "Bind",
                   err |-> "ok",
                   val |-> Bind(k, subkey, int64OfNat(now)),
                   aux |-> [subkey |-> subkey, when |-> now]]
        /\ k' = AfterPacket(k)
        /\ UNCHANGED <<wire, now, dropped, csvars>>

\* the end of Clearsign's goroutine: the packet of k.sign(in) over the
\* canonical text written to h
ClearsignSignStep ==
    /\ Seeded
    /\ \E data \in Docs :
        /\ ret' = [op  |-> "Clearsign",
                   err |-> "ok",
                   val |-> ClearsignPacket(k, [data |-> data], int64OfNat(now)),
                   aux |-> [data |-> data, when |-> now]]
        /\ k' = AfterPacket(k)
        /\ UNCHANGED <<wire, now, dropped, csvars>>

NextSig ==
    \/ SeedStep
    \/ SetCreatedStep
    \/ ExpiresStep
    \/ SelfSignStep
    \/ BindStep
    \/ CertifyStep
    \/ SignStep
    \/ ClearsignSignStep
    \/ Tick

SpecSig == Init /\ [][NextSig]_vars

(***************************************************************************)
(* Claims settled on SpecSig                                               *)
(***************************************************************************)

\* C11: in every signature packet SelfSign, Bind, Certify, Sign and
\* Clearsign return, the hashed area is the creation-time subpacket, the
\* issuer subpacket with the last 8 octets of the Key ID, then the
\* subpackets of the class in the caller's order (27, 9 if an expiration is
\* set, 30 if the MDC flag is set; 27, 9 if the subkey expires; 33), its
\* length stands before it, the unhashed area after it is empty, and the
\* digest whose first two octets follow is the digest of the content, of
\* the packet from its version octet to the end of this area, and of the
\* final trailer
C11_HashedSubpacketOrder ==
    (ret.op \in {"SelfSign", "Bind", "Certify", "Sign", "Clearsign"} /\ ret.err = "ok") =>
        LET Sub(type, data) == <<Len(data) + 1, type>> \o data
            keybody == <<153, 0, 51>> \o PubBody(Pubkey(k), k.created)
            keyid   == sha1Sum(keybody)
            \* the subpackets of the class
            class ==
              CASE ret.op = "SelfSign" ->
                     Sub(27, <<3>>)
                       \o (IF k.expires # int64OfNat(0)
                           THEN Sub(9, delta(k.expires, k.created)) ELSE <<>>)
                       \o (IF (ret.aux.flags \div FlagMDC) % 2 = 1
                           THEN Sub(30, <<1>>) ELSE <<>>)
                [] ret.op = "Bind" ->
                     Sub(27, <<12>>)
                       \o (IF ret.aux.subkey.expires # int64OfNat(0)
                           THEN Sub(9, delta(ret.aux.subkey.expires,
                                             ret.aux.subkey.created))
                           ELSE <<>>)
                [] OTHER -> Sub(33, <<4>> \o keyid)
            \* the octets written to the digest before sign
            content ==
              CASE ret.op = "SelfSign" ->
                     keybody \o <<180, 0, 0, 0, Len(ret.aux.userid.ID)>>
                       \o ret.aux.userid.ID
                [] ret.op = "Bind" ->
                     keybody
                       \o <<153, 0, Len(EncryptKeyPubPacket(ret.aux.subkey)) - 2>>
                       \o SlFrom(EncryptKeyPubPacket(ret.aux.subkey), 2)
                [] ret.op = "Certify" ->
                     <<153>> \o be16(Len(ParsePacket(ret.aux[3]).Body))
                       \o ParsePacket(ret.aux[3]).Body
                       \o <<180, 0, 0>> \o be16(Len(ParsePacket(ret.aux[4]).Body))
                       \o ParsePacket(ret.aux[4]).Body
                [] ret.op = "Sign" -> ret.aux.src.data
                [] OTHER -> ret.aux.data
            when    == IF ret.op = "Certify" THEN ret.aux[5] ELSE ret.aux.when
            sigtype == CASE ret.op = "SelfSign" -> 19
                         [] ret.op = "Bind" -> 24
                         [] ret.op = "Certify" -> 16
                         [] ret.op = "Sign" -> 0
                         [] OTHER -> 1
            area    == Sub(2, SubSeq(int64OfNat(when), 5, 8))
                         \o Sub(16, SubSeq(keyid, 13, 20))
                         \o class
            n       == Len(area)
            framed  == <<4, sigtype, 22, 8>> \o be16(n) \o area
            sigsum  == HSum(HWrite(HWrite(HWrite(sha256New, content), framed),
                                   <<4, 255, 0, 0, 0, n + 6>>), 32)
            sig     == ed25519Sign(k.Key, sigsum)
        IN /\ Len(ret.val) >= n + 12
           /\ Sl(ret.val, 2, 8 + n) = framed
           /\ Sl(ret.val, 8 + n, 10 + n) = <<0, 0>>
           /\ Sl(ret.val, 10 + n, 12 + n) = Sl(sigsum, 0, 2)
           /\ SlFrom(ret.val, 12 + n) = mpi(Sl(sig, 0, 32)) \o mpi(SlFrom(sig, 32))

\* C11 witness: a self-signature of a key with an expiration, made with
\* the MDC flag, whose hashed area holds the five subpackets 2, 16, 27, 9
\* and 30 (28 octets), after a mutator discarded a filled cache
C11_Witness ==
    /\ ret.op = "SelfSign"
    /\ k.expires # int64OfNat(0)
    /\ ret.aux.flags = FlagMDC
    /\ ret.aux.when > 0
    /\ Sl(ret.val, 6, 8) = <<0, 28>>
    /\ <<ret.val[10], ret.val[16], ret.val[26], ret.val[29], ret.val[35]>>
         = <<2, 16, 27, 9, 30>>
    /\ dropped


(***************************************************************************)
(* The S2K derivation as a function of the count octet, the salt and the   *)
(* passphrase.                                                             *)
(***************************************************************************)

\* passphrase lengths: with the 8 octets of the salt, blocks of 8, 9 and
\* 13 octets, a block of exactly the smallest count (1024), and blocks
\* longer than the counts of the octets 0 and 1
PassLens == {0, 1, 5, 1016, 1017, 1100}

\* a passphrase of n octets
PassOfLen(n) == Tup([i \in 1..n |-> (i * 7 + 3) % 256])

\* a caller about to derive a key: the count octet c, the salt and the
\* length n of the passphrase it holds
InitS2K ==
    /\ ret \in {[NoRet EXCEPT !.op = "call", !.aux = [c |-> c, salt |-> salt, n |-> n]] :
                   c \in Octets, salt \in Salts, n \in PassLens}
    /\ k = ZeroKey
    /\ wire = NoWire
    /\ now = 0
    /\ dropped = FALSE
    /\ pc = "idle"
    /\ scanner = NoScanner
    /\ hin = <<>>
    /\ pipe = NoPipe
    /\ rd = NoRd

\* key := s2k(passphrase, salt, decodeS2K(c))
S2KStep ==
    /\ ret.op = "call"
    /\ LET passphrase == PassOfLen(ret.aux.n)
           count      == decodeS2K(ret.aux.c)
       IN ret' = [op  |-> "s2k",
                  err |-> "ok",
                  val |-> s2k(passphrase, ret.aux.salt, count),
                  aux |-> [c |-> ret.aux.c, salt |-> ret.aux.salt, n |-> ret.aux.n,
                           writes |-> s2kWrites(passphrase, ret.aux.salt, count)]]
    /\ UNCHANGED <<k, wire, now, dropped, csvars>>

NextS2K == S2KStep

SpecS2K == InitS2K /\ [][NextS2K]_vars

(***************************************************************************)
(* Claims settled on SpecS2K                                               *)
(***************************************************************************)

\* C12: for every count octet c, salt and passphrase length, s2k writes to
\* the hash count = (16 + (c & 15)) << ((c >> 4) + 6) octets in all:
\* floor(count / L) whole copies of salt || passphrase, L = 8 + the length
\* of the passphrase, then the first count mod L octets of one more copy,
\* also when count < L; for the counts small enough to write the stream
\* out (c below 16) the key is the digest of exactly that stream
C12_S2KByteAccounting ==
    ret.op = "s2k" =>
        LET c     == ret.aux.c
            full  == ret.aux.salt \o PassOfLen(ret.aux.n)
            L     == 8 + ret.aux.n
            count == (16 + (c % 16)) * 2 ^ ((c \div 16) + 6)
            w     == ret.aux.writes
            \* the first count octets of the endless repetition of full
            stream == Tup([j \in 1..count |-> full[((j - 1) % L) + 1]])
        IN /\ w.full = full
           /\ w.iterations = count \div L
           /\ w.tail = SubSeq(full, 1, count % L)
           /\ w.iterations * Len(w.full) + Len(w.tail) = count
           /\ (c < 16 => ret.val = HSum(HWrite(sha256New, stream), 32))

\* C12 witness: a count below the length of salt || passphrase, where no
\* whole copy is written and the key is the digest of the first count
\* octets
C12_Witness ==
    /\ ret.op = "s2k"
    /\ ret.aux.c = 1
    /\ ret.aux.n = 1100
    /\ ret.aux.writes.iterations = 0
    /\ Len(ret.aux.writes.tail) = 1088
    /\ ret.val = HSum(HWrite(sha256New, SubSeq(ret.aux.salt \o PassOfLen(1100), 1, 1088)), 32)


(***************************************************************************)
(* The cache under EncPacket, settled on Spec                              *)
(***************************************************************************)

\* C13 as stated: whatever calls of EncPacket came before, Packet() returns
\* the cleartext secret-key packet of the key: protection octet 0, the
\* MPI of the secret scalar and its 16-bit checksum
C13_EncPacketKeepsCache ==
    Seeded => Packet(k) = BuildPacket(k)

\* C13, what the code does: after EncPacket the cached packet has kept its
\* length, its header and its public part, its octets 53..81 are those of
\* the packet EncPacket returned (254, 9, 3, 8, salt, count, IV) and its
\* last octets are still those of the cleartext packet
C13_EncPacketWritesThroughCache ==
    ret.op = "EncPacket" =>
        /\ Len(Packet(k)) = Len(BuildPacket(k))
        /\ Sl(Packet(k), 0, 53) = Sl(BuildPacket(k), 0, 53)
        /\ Sl(Packet(k), 53, 82) = Sl(ret.val, 53, 82)
        /\ Sl(Packet(k), 53, 57) = <<254, 9, 3, 8>>
        /\ SlFrom(Packet(k), 82) = SlFrom(BuildPacket(k), 82)

\* C13 witness: EncPacket has returned on a key whose seed starts with a
\* zero octet (a short MPI), and Packet() no longer returns the cleartext
\* packet
C13_Witness ==
    /\ ret.op = "EncPacket"
    /\ Seckey(k)[1] = 0
    /\ Packet(k) # BuildPacket(k)
    /\ Packet(k)[54] = 254


(***************************************************************************)
(* Failed loads, settled on SpecLoad                                       *)
(***************************************************************************)

\* C14 as stated: a Load that returns an error leaves the key as it was:
\* the same key material and creation time and, for a key that has a
\* seed, the same values of Packet() and KeyID()
C14_FailedLoadChangesNothing ==
    [][(wire'.loads # wire.loads /\ ret'.err # "ok")
       => /\ k'.Key = k.Key
          /\ k'.created = k.created
          /\ (Seeded => (Packet(k') = Packet(k) /\ KeyID(k') = KeyID(k)))]_vars

\* C15 as stated: a Load that returns DecryptKeyErr has not changed the
\* octets of the body it was given, and a Load of the same Packet value,
\* exported by EncPacket and parsed unaltered, with the passphrase that
\* protected it succeeds and yields the exported key, whatever Loads of
\* that Packet value came before
C15_RetrySucceeds ==
    /\ (Loaded /\ ret.err = "DecryptKeyErr" /\ ~ret.aux.touched) => ~wire.touched
    /\ (/\ Loaded
        /\ Protected
        /\ wire.mut.kind = "none"
        /\ ret.aux.pass = wire.info.pass
        /\ Sl(wire.info.created, 0, 4) = <<0, 0, 0, 0>>)
       => /\ ret.err = "ok"
          /\ Seckey(k) = wire.info.seed
          /\ k.created = wire.info.created
          /\ KeyID(k) = wire.info.keyid

====
